---- MODULE Spec2Model ----
(***************************************************************************)
(* A model of geom.py: 2D geometry helpers used for collision detection.   *)
(*                                                                         *)
(* Every function of geom.py is pure, so the state machine is a call       *)
(* record: Init draws the function and its arguments from bounded sets     *)
(* (pc = "call"), and the function's action evaluates the body and stores  *)
(* either the returned value (pc = "return") or the raised exception       *)
(* (pc = "raise").  collision's loop over the sides of a wall takes one    *)
(* step per statement of its body, its local variables held in local.      *)
(*                                                                         *)
(* Numbers are exact rationals [n |-> numerator, d |-> denominator > 0] in *)
(* lowest terms; math.inf is the record with d = 0.  Python's p[0], p[1]   *)
(* are p[1], p[2] here (TLA+ tuples start at 1).                           *)
(***************************************************************************)
EXTENDS Integers, Sequences, FiniteSets, TLC

VARIABLES op, args, pc, result, local

vars == <<op, args, pc, result, local>>

---------------------------------------------------------------------------
(* Bounds of the model.                                                    *)

\* grid coordinates of points are 0..MaxCoord
MaxCoord == 2
\* collision radii are 0, 1/2, ..., MaxRadius/2
MaxRadius == 2

---------------------------------------------------------------------------
(* Exact arithmetic.                                                       *)

IAbs(k) == IF k < 0 THEN -k ELSE k

RECURSIVE GCD(_, _)
GCD(a, b) == IF b = 0 THEN a ELSE GCD(b, a % b)

\* what a division by zero evaluates to: the exception, carried as a value
\* through the rest of the expression and turned into pc = "raise" by the action
ZeroDivisionError == [n |-> 0, d |-> 0]

IsError(a) == a.n = 0 /\ a.d = 0

\* the rational n/d in lowest terms; a zero denominator raises
Frac(n, d) ==
    IF d = 0 THEN ZeroDivisionError
    ELSE LET g == GCD(IAbs(n), IAbs(d))
             s == IF d < 0 THEN -1 ELSE 1
         IN  [n |-> (s * n) \div g, d |-> (s * d) \div g]

Num(k) == [n |-> k, d |-> 1]

\* math.inf
inf == [n |-> 1, d |-> 0]

isinf(a) == a.d = 0 /\ a.n # 0

RAdd(a, b) ==
    IF IsError(a) \/ IsError(b) THEN ZeroDivisionError
    ELSE Frac(a.n * b.d + b.n * a.d, a.d * b.d)

RSub(a, b) ==
    IF IsError(a) \/ IsError(b) THEN ZeroDivisionError
    ELSE Frac(a.n * b.d - b.n * a.d, a.d * b.d)

RMul(a, b) ==
    IF IsError(a) \/ IsError(b) THEN ZeroDivisionError
    ELSE Frac(a.n * b.n, a.d * b.d)

\* Python's a / b: raises ZeroDivisionError when b == 0
RDiv(a, b) ==
    IF IsError(a) \/ IsError(b) THEN ZeroDivisionError
    ELSE Frac(a.n * b.d, a.d * b.n)

\* Python's abs(a); abs(math.inf) is math.inf
RAbs(a) == [n |-> IAbs(a.n), d |-> a.d]

\* Python's a == b on numbers: the values, whatever the numbers' types
REq(a, b) == a.n = b.n /\ a.d = b.d

\* Python's a < b and a > b
RLt(a, b) == a.n * b.d < b.n * a.d
RGt(a, b) == RLt(b, a)

---------------------------------------------------------------------------
(* Simple math functions.                                                  *)

\* max with >= for >: a tie returns the first argument
max_first(a, b) == IF RGt(a, b) \/ REq(a, b) THEN a ELSE b

max(a, b) == IF RGt(a, b) THEN a ELSE b

min(a, b) == IF RLt(a, b) THEN a ELSE b

sign(k) ==
    IF REq(k, Num(0)) THEN 0
    ELSE IF RGt(k, Num(0)) THEN 1
    ELSE -1

\* slope testing the y coordinates for the vertical line
slope_by_y(p1, p2) ==
    IF REq(p1[2], p2[2]) THEN inf
    ELSE RDiv(RSub(p2[2], p1[2]), RSub(p2[1], p1[1]))

slope(p1, p2) ==
    IF REq(p1[1], p2[1]) THEN inf
    ELSE RDiv(RSub(p2[2], p1[2]), RSub(p2[1], p1[1]))

on_segment(point, line) ==
    /\ REq(slope(point, line[1]), slope(point, line[2]))
    /\ ~ RLt(point[1], min(line[1][1], line[2][1]))
    /\ ~ RGt(point[1], max(line[1][1], line[2][1]))
    /\ ~ RLt(point[2], min(line[1][2], line[2][2]))
    /\ ~ RGt(point[2], max(line[1][2], line[2][2]))

\* the value False that point_of_intersection returns for parallel lines
False == [type |-> "bool", val |-> FALSE]

\* point_of_intersection with constTemp = const1 - const2
point_of_intersection_flipped(line1, line2) ==
    LET slope1 == slope(line1[1], line1[2])
        slope2 == slope(line2[1], line2[2])
        const1 == IF REq(slope1, inf) THEN Num(0)
                  ELSE RSub(line1[1][2], RMul(line1[1][1], slope1))
        const2 == IF REq(slope2, inf) THEN Num(0)
                  ELSE RSub(line2[1][2], RMul(line2[1][1], slope2))
    IN  IF REq(slope1, slope2) THEN False
        ELSE IF isinf(slope1)
             THEN [type |-> "tuple",
                   at |-> <<line1[1][1], RAdd(RMul(slope2, line1[1][1]), const2)>>]
        ELSE IF isinf(slope2)
             THEN [type |-> "tuple",
                   at |-> <<line2[1][1], RAdd(RMul(slope1, line2[1][1]), const1)>>]
        ELSE LET intersectionX == RDiv(RSub(const1, const2), RSub(slope1, slope2))
             IN  [type |-> "tuple",
                  at |-> <<intersectionX, RAdd(RMul(slope1, intersectionX), const1)>>]

\* point_of_intersection taking only two vertical lines for parallel
point_of_intersection_vertical(line1, line2) ==
    LET slope1 == slope(line1[1], line1[2])
        slope2 == slope(line2[1], line2[2])
        const1 == IF REq(slope1, inf) THEN Num(0)
                  ELSE RSub(line1[1][2], RMul(line1[1][1], slope1))
        const2 == IF REq(slope2, inf) THEN Num(0)
                  ELSE RSub(line2[1][2], RMul(line2[1][1], slope2))
    IN  IF isinf(slope1) /\ isinf(slope2) THEN False
        ELSE IF isinf(slope1)
             THEN [type |-> "tuple",
                   at |-> <<line1[1][1], RAdd(RMul(slope2, line1[1][1]), const2)>>]
        ELSE IF isinf(slope2)
             THEN [type |-> "tuple",
                   at |-> <<line2[1][1], RAdd(RMul(slope1, line2[1][1]), const1)>>]
        ELSE LET intersectionX == RDiv(RSub(const2, const1), RSub(slope1, slope2))
             IN  [type |-> "tuple",
                  at |-> <<intersectionX, RAdd(RMul(slope1, intersectionX), const1)>>]

point_of_intersection(line1, line2) ==
    LET slope1 == slope(line1[1], line1[2])
        slope2 == slope(line2[1], line2[2])
        const1 == IF REq(slope1, inf) THEN Num(0)
                  ELSE RSub(line1[1][2], RMul(line1[1][1], slope1))
        const2 == IF REq(slope2, inf) THEN Num(0)
                  ELSE RSub(line2[1][2], RMul(line2[1][1], slope2))
    IN  IF REq(slope1, slope2) THEN False
        ELSE IF isinf(slope1)
             THEN LET intersectionX == line1[1][1]
                      intersectionY == RAdd(RMul(slope2, intersectionX), const2)
                  IN  [type |-> "tuple", at |-> <<intersectionX, intersectionY>>]
        ELSE IF isinf(slope2)
             THEN LET intersectionX == line2[1][1]
                      intersectionY == RAdd(RMul(slope1, intersectionX), const1)
                  IN  [type |-> "tuple", at |-> <<intersectionX, intersectionY>>]
        ELSE LET slopeTemp == RSub(slope1, slope2)
                 constTemp == RSub(const2, const1)
                 intersectionX == RDiv(constTemp, slopeTemp)
                 intersectionY == RAdd(RMul(slope1, intersectionX), const1)
             IN  [type |-> "tuple", at |-> <<intersectionX, intersectionY>>]

---------------------------------------------------------------------------
(* Functions involving classes.                                            *)
(*                                                                         *)
(* isinstance() needs the type of a value, so the values these functions   *)
(* dispatch on carry it: a tuple is [type |-> "tuple", at |-> <<x, y>>],   *)
(* an entity [type |-> "Entity", x, y, cx, cy, COLLISION_RADIUS] (cx, cy:  *)
(* what center() returns), a wall [type |-> "Wall", vertices].             *)

Tuple(p) == [type |-> "tuple", at |-> p]

\* what a function returns when it falls off its end
None == [type |-> "NoneType"]

Bool(b) == [type |-> "bool", val |-> b]

\* math.sqrt(q), kept exact as the non-negative real whose square is q
sqrt(q) == [type |-> "float", sq |-> q]

Sq(a) == RMul(a, a)

\* math.sqrt(q) < r for a rational r
SqrtLt(s, r) == RGt(r, Num(0)) /\ RLt(s.sq, Sq(r))

\* Entity.center()
center(e) == <<e.cx, e.cy>>

\* Wall.num_vertices()
num_vertices(w) == Len(w.vertices)

\* distance with b[0] for b[1] in the tuple-tuple case
distance_mixed(a, b) ==
    IF a.type = "tuple" /\ b.type = "tuple"
    THEN sqrt(RAdd(Sq(RSub(a.at[1], b.at[1])), Sq(RSub(a.at[2], b.at[1]))))
    ELSE IF a.type = "tuple" /\ b.type = "Entity"
    THEN sqrt(RAdd(Sq(RSub(a.at[1], b.x)), Sq(RSub(a.at[2], b.y))))
    ELSE IF a.type = "Entity" /\ b.type = "tuple"
    THEN sqrt(RAdd(Sq(RSub(b.at[1], a.x)), Sq(RSub(b.at[2], a.y))))
    ELSE IF a.type = "Entity" /\ b.type = "Entity"
    THEN sqrt(RAdd(Sq(RSub(a.x, b.x)), Sq(RSub(a.y, b.y))))
    ELSE None

RECURSIVE distance(_, _)
distance(a, b) ==
    IF a.type = "tuple" /\ b.type = "tuple"
    THEN sqrt(RAdd(Sq(RSub(a.at[1], b.at[1])), Sq(RSub(a.at[2], b.at[2]))))
    ELSE IF a.type = "tuple" /\ b.type = "Entity"
    THEN sqrt(RAdd(Sq(RSub(a.at[1], b.x)), Sq(RSub(a.at[2], b.y))))
    ELSE IF a.type = "Entity" /\ b.type = "tuple"
    THEN distance(b, a)
    ELSE IF a.type = "Entity" /\ b.type = "Entity"
    THEN sqrt(RAdd(Sq(RSub(a.x, b.x)), Sq(RSub(a.y, b.y))))
    ELSE None

\* -math.degrees(math.atan(q)) + (plus % 360), kept symbolic in q; the
\* division raises when the point has the entity's x
angle_to_point(entity_, point) ==
    LET dy == RSub(point[2], entity_.y)
        dx == RSub(point[1], entity_.x)
        q  == RDiv(dy, dx)
    IN  [exc |-> IF IsError(q) THEN "ZeroDivisionError" ELSE "none",
         val |-> [type |-> "float", minus_degrees_atan |-> q,
                  plus |-> (IF RLt(dx, Num(0)) THEN 180 ELSE 0) % 360]]

\* the second point of the line through the entity center that collision
\* builds for a side
temp_point(entity_, side) ==
    IF REq(RAbs(slope(side[1], side[2])), Num(0))
    THEN <<entity_.x, RAdd(entity_.y, Num(1))>>
    ELSE IF isinf(slope(side[1], side[2]))
    THEN <<RAdd(entity_.x, Num(1)), entity_.y>>
    ELSE <<entity_.x, RAdd(entity_.y, RDiv(Num(-1), slope(side[1], side[2])))>>

\* wall_side without the wraparound: the last side ends where it starts
wall_side_open(wall_, i) ==
    <<wall_.vertices[i],
      wall_.vertices[IF i = num_vertices(wall_) THEN i ELSE i + 1]>>

\* side i of the wall, i in 1..num_vertices (Python's i is i - 1)
wall_side(wall_, i) ==
    <<wall_.vertices[i], wall_.vertices[(i % num_vertices(wall_)) + 1]>>

\* the test of collision's loop for one side: the intersection is within
\* the radius and on the side, or the side's first vertex is within the radius
side_collides(entity_, wall_, i, side, intersection) ==
    \/ /\ SqrtLt(distance(Tuple(center(entity_)), intersection),
                 entity_.COLLISION_RADIUS)
       /\ on_segment(intersection.at, side)
    \/ SqrtLt(distance(Tuple(center(entity_)), Tuple(wall_.vertices[i])),
              entity_.COLLISION_RADIUS)

\* math.sqrt(q) <= r
SqrtLe(s, r) == ~ RLt(r, Num(0)) /\ ~ RGt(s.sq, Sq(r))

\* collision of two entities with <= for <
collision_entities_touching(a, b) ==
    SqrtLe(distance(Tuple(center(a)), Tuple(center(b))),
           RAdd(a.COLLISION_RADIUS, b.COLLISION_RADIUS))

\* collision of two entities
collision_entities(a, b) ==
    SqrtLt(distance(Tuple(center(a)), Tuple(center(b))),
           RAdd(a.COLLISION_RADIUS, b.COLLISION_RADIUS))

---------------------------------------------------------------------------
(* Inputs.                                                                 *)

Coords == {Num(k) : k \in 0..MaxCoord}
Points == Coords \X Coords
Lines == Points \X Points

\* Python numbers of both types: 1 and 1.0 compare equal and are two values
TypedNumbers == {[n |-> k, d |-> 1, ty |-> t] : k \in 0..MaxCoord, t \in {"int", "float"}}

SignedNumbers == {Frac(k, 2) : k \in (-MaxCoord)..MaxCoord}

\* entities stand on the grid points and on the centres of the grid's cells
Positions == Points \cup {<<RAdd(p[1], Frac(1, 2)), RAdd(p[2], Frac(1, 2))>> : p \in Points}
Radii == {Frac(k, 2) : k \in 0..MaxRadius}

Entity(x, y, cx, cy, r) ==
    [type |-> "Entity", x |-> x, y |-> y, cx |-> cx, cy |-> cy, COLLISION_RADIUS |-> r]

\* entities whose center() is their position
CentredEntities == {Entity(p[1], p[2], p[1], p[2], r) : p \in Positions, r \in Radii}

\* entities whose center() is half a unit off their position
OffCentreEntities ==
    {Entity(p[1], p[2], RAdd(p[1], Frac(1, 2)), RAdd(p[2], Frac(1, 2)), Num(1)) : p \in Points}

\* the entities of the two wall scenarios
ScenarioEntities ==
    {Entity(Num(5), Frac(-1, 2), Num(5), Frac(-1, 2), Num(1)),
     Entity(Num(5), Num(5), Num(5), Num(5), Num(1))}

Entities == CentredEntities \cup OffCentreEntities

Wall(vs) == [type |-> "Wall", vertices |-> vs]

\* the rectangles of the grid, counter-clockwise and clockwise, and the
\* square of the scenarios
ScenarioSquare ==
    <<<<Num(0), Num(0)>>, <<Num(10), Num(0)>>, <<Num(10), Num(10)>>, <<Num(0), Num(10)>>>>

Rectangles ==
    UNION {{<<<<x1, y1>>, <<x2, y1>>, <<x2, y2>>, <<x1, y2>>>>,
            <<<<x1, y1>>, <<x1, y2>>, <<x2, y2>>, <<x2, y1>>>>} :
           <<x1, x2, y1, y2>> \in {c \in Coords \X Coords \X Coords \X Coords :
                                      RLt(c[1], c[2]) /\ RLt(c[3], c[4])}}

RectangleWalls == {Wall(vs) : vs \in Rectangles \cup {ScenarioSquare}}

\* the triangles on the corners of the grid, repeated corners included
Corners == {p \in Points : p[1] \in {Num(0), Num(MaxCoord)} /\ p[2] \in {Num(0), Num(MaxCoord)}}

\* the walls: every vertex list of up to two grid points (zero-length and
\* doubled sides of every slope), the corner triangles, and the rectangles
Walls ==
    {Wall(vs) : vs \in {<<>>} \cup {<<p>> : p \in Points} \cup (Points \X Points)
                       \cup (Corners \X Corners \X Corners)}
    \cup RectangleWalls

NoResult == [type |-> "none"]

\* collision's local variables before the loop over the sides is entered
NoLocals ==
    [entity_ |-> None, wall_ |-> None, i |-> 0, side |-> <<>>,
     temp_point |-> <<>>, intersection |-> None]

---------------------------------------------------------------------------
(* The calls.                                                              *)

Init ==
    /\ pc = "call"
    /\ result = NoResult
    /\ local = NoLocals
    /\ \/ op \in {"max", "min"} /\ args \in TypedNumbers \X TypedNumbers
       \/ op = "sign" /\ args \in {<<k>> : k \in SignedNumbers}
       \/ op = "slope" /\ args \in Points \X Points
       \/ op = "on_segment" /\ args \in Points \X Lines
       \/ op = "point_of_intersection" /\ args \in Lines \X Lines
       \/ op = "distance"
          /\ args \in ({Tuple(p) : p \in Points} \cup Entities)
                      \X ({Tuple(p) : p \in Points} \cup Entities)
       \/ op = "angle_to_point" /\ args \in Entities \X Points
       \/ op = "collision"
          /\ \/ args \in Entities \X Entities
             \/ args \in (Entities \cup ScenarioEntities) \X Walls
             \/ args \in RectangleWalls \X (CentredEntities \cup ScenarioEntities)
             \/ args \in RectangleWalls \X RectangleWalls

\* the call ends: with the value v, or with the exception exc it raised
Finish(v, exc) ==
    /\ pc' = IF exc = "none" THEN "return" ELSE "raise"
    /\ result' = IF exc = "none" THEN v ELSE [type |-> exc]
    /\ UNCHANGED <<op, args>>

ErrorOf(v) == IF IsError(v) THEN "ZeroDivisionError" ELSE "none"

Max ==
    /\ pc = "call" /\ op = "max"
    /\ Finish(max(args[1], args[2]), "none")
    /\ UNCHANGED local

Min ==
    /\ pc = "call" /\ op = "min"
    /\ Finish(min(args[1], args[2]), "none")
    /\ UNCHANGED local

Sign ==
    /\ pc = "call" /\ op = "sign"
    /\ Finish(sign(args[1]), "none")
    /\ UNCHANGED local

Slope ==
    /\ pc = "call" /\ op = "slope"
    /\ LET v == slope(args[1], args[2])
       IN  Finish(v, ErrorOf(v))
    /\ UNCHANGED local

OnSegment ==
    /\ pc = "call" /\ op = "on_segment"
    /\ LET s1 == slope(args[1], args[2][1])
           s2 == slope(args[1], args[2][2])
       IN  Finish(Bool(on_segment(args[1], args[2])),
                  IF IsError(s1) THEN ErrorOf(s1) ELSE ErrorOf(s2))
    /\ UNCHANGED local

\* the exception a call of point_of_intersection that gave v raised, if any
IntersectionError(v) ==
    IF v.type # "tuple" THEN "none"
    ELSE IF IsError(v.at[1]) THEN "ZeroDivisionError"
    ELSE ErrorOf(v.at[2])

PointOfIntersection ==
    /\ pc = "call" /\ op = "point_of_intersection"
    /\ LET v == point_of_intersection(args[1], args[2])
       IN  Finish(v, IntersectionError(v))
    /\ UNCHANGED local

Distance ==
    /\ pc = "call" /\ op = "distance"
    /\ Finish(distance(args[1], args[2]), "none")
    /\ UNCHANGED local

AngleToPoint ==
    /\ pc = "call" /\ op = "angle_to_point"
    /\ LET a == angle_to_point(args[1], args[2])
       IN  Finish(a.val, a.exc)
    /\ UNCHANGED local

\* collision's dispatch on the types of a and b: two entities are settled
\* at once; entity and wall enter the loop over the sides; wall and entity
\* are collision(b, a); anything else falls off the end
Collision ==
    /\ pc = "call" /\ op = "collision"
    /\ LET a == args[1]
           b == args[2]
       IN  IF a.type = "Entity" /\ b.type = "Entity"
           THEN Finish(Bool(collision_entities(a, b)), "none") /\ UNCHANGED local
           ELSE IF a.type = "Entity" /\ b.type = "Wall"
           THEN /\ local' = [NoLocals EXCEPT !.entity_ = a, !.wall_ = b, !.i = 1]
                /\ pc' = "for"
                /\ UNCHANGED <<op, args, result>>
           ELSE IF a.type = "Wall" /\ b.type = "Entity"
           THEN /\ local' = [NoLocals EXCEPT !.entity_ = b, !.wall_ = a, !.i = 1]
                /\ pc' = "for"
                /\ UNCHANGED <<op, args, result>>
           ELSE Finish(None, "none") /\ UNCHANGED local

\* the head of the loop: past the last side collision returns False;
\* otherwise it defines the side and temp_point
CollisionSide ==
    /\ pc = "for"
    /\ IF local.i > num_vertices(local.wall_)
       THEN Finish(Bool(FALSE), "none") /\ UNCHANGED local
       ELSE LET side == wall_side(local.wall_, local.i)
                tp == temp_point(local.entity_, side)
            IN  IF IsError(tp[2])
                THEN Finish(None, "ZeroDivisionError") /\ UNCHANGED local
                ELSE /\ local' = [local EXCEPT !.side = side, !.temp_point = tp]
                     /\ pc' = "intersection"
                     /\ UNCHANGED <<op, args, result>>

\* intersection = point_of_intersection(side, (entity_.center(), temp_point))
CollisionIntersection ==
    /\ pc = "intersection"
    /\ LET v == point_of_intersection(local.side,
                                      <<center(local.entity_), local.temp_point>>)
       IN  IF IntersectionError(v) # "none"
           THEN Finish(None, IntersectionError(v)) /\ UNCHANGED local
           ELSE /\ local' = [local EXCEPT !.intersection = v]
                /\ pc' = "test"
                /\ UNCHANGED <<op, args, result>>

\* the test of the side: distance gives None for an intersection that is
\* False, and None < radius raises TypeError; a side that collides returns
\* True; otherwise the loop goes on with the next side
CollisionTest ==
    /\ pc = "test"
    /\ IF distance(Tuple(center(local.entity_)), local.intersection).type = "NoneType"
       THEN Finish(None, "TypeError") /\ UNCHANGED local
       ELSE IF side_collides(local.entity_, local.wall_, local.i, local.side,
                             local.intersection)
       THEN Finish(Bool(TRUE), "none") /\ UNCHANGED local
       ELSE /\ local' = [local EXCEPT !.i = local.i + 1]
            /\ pc' = "for"
            /\ UNCHANGED <<op, args, result>>

Next ==
    \/ Max
    \/ Min
    \/ Sign
    \/ Slope
    \/ OnSegment
    \/ PointOfIntersection
    \/ Distance
    \/ AngleToPoint
    \/ Collision
    \/ CollisionSide
    \/ CollisionIntersection
    \/ CollisionTest

Spec == Init /\ [][Next]_vars

---------------------------------------------------------------------------
(* Properties.                                                             *)

\* the call of f has ended
Ended(f) == op = f /\ pc # "call"
Returned(f) == op = f /\ pc = "return"

Dx(line) == RSub(line[2][1], line[1][1])
Dy(line) == RSub(line[2][2], line[1][2])

\* the cross product of the directions of two lines
Cross(line1, line2) == RSub(RMul(Dx(line1), Dy(line2)), RMul(Dy(line1), Dx(line2)))

\* p is on the infinite line through the two points of line
Collinear(p, line) == Cross(line, <<line[1], p>>) = Num(0)

IsVertical(line) == line[1][1] = line[2][1]
IsHorizontal(line) == line[1][2] = line[2][2]

\* C1: each endpoint of a segment with two distinct endpoints is on the
\* segment, whatever the segment's orientation.
EndpointOnOwnSegment ==
    (/\ Returned("on_segment")
     /\ args[2][1] # args[2][2]
     /\ args[1] \in {args[2][1], args[2][2]})
    => result = Bool(TRUE)

\* the entity and the wall of an entity-wall or wall-entity collision call
IsWallCollision ==
    /\ op = "collision"
    /\ {args[1].type, args[2].type} = {"Entity", "Wall"}

TheEntity == IF args[1].type = "Entity" THEN args[1] ELSE args[2]

TheWall == IF args[1].type = "Wall" THEN args[1] ELSE args[2]

IsCentred(e) == center(e) = <<e.x, e.y>>

\* the two lines are perpendicular: their directions' dot product is zero
\* and neither is a single point
Perpendicular(line1, line2) ==
    /\ line1[1] # line1[2]
    /\ line2[1] # line2[2]
    /\ RAdd(RMul(Dx(line1), Dx(line2)), RMul(Dy(line1), Dy(line2))) = Num(0)

\* C2: for every side collision visits, once temp_point is constructed the
\* line through the entity center and temp_point is perpendicular to the
\* side (entities whose center() is their position, sides with two distinct
\* endpoints).
TempLinePerpendicularToSide ==
    (/\ pc \in {"intersection", "test"}
     /\ IsCentred(local.entity_)
     /\ local.side[1] # local.side[2])
    => Perpendicular(local.side, <<center(local.entity_), local.temp_point>>)

\* C3: for two lines, each through two distinct points, that are not
\* parallel, point_of_intersection returns a point on both lines.
IntersectionOnBothLines ==
    (/\ Ended("point_of_intersection")
     /\ args[1][1] # args[1][2]
     /\ args[2][1] # args[2][2]
     /\ Cross(args[1], args[2]) # Num(0))
    => /\ pc = "return"
       /\ result.type = "tuple"
       /\ Collinear(result.at, args[1])
       /\ Collinear(result.at, args[2])

IntersectionWithOneVertical ==
    /\ Returned("point_of_intersection")
    /\ IsVertical(args[1]) /\ args[1][1] # args[1][2]
    /\ ~ IsVertical(args[2]) /\ ~ IsHorizontal(args[2])
    /\ result.type = "tuple"
    /\ Collinear(result.at, args[1])
    /\ Collinear(result.at, args[2])

\* the two lines have equal slopes: both have two points of one x, or
\* neither has and rise over run is the same
EqualSlopes(line1, line2) ==
    \/ IsVertical(line1) /\ IsVertical(line2)
    \/ /\ ~ IsVertical(line1)
       /\ ~ IsVertical(line2)
       /\ Cross(line1, line2) = Num(0)

\* C4: point_of_intersection returns False for lines of equal slopes, both
\* vertical included, and a point, never False, for lines of different slopes.
ParallelIffNoIntersection ==
    Ended("point_of_intersection")
    => /\ pc = "return"
       /\ EqualSlopes(args[1], args[2]) => result = False
       /\ ~ EqualSlopes(args[1], args[2]) => result.type = "tuple"

BothVerticalNoIntersection ==
    /\ Returned("point_of_intersection")
    /\ IsVertical(args[1]) /\ IsVertical(args[2])
    /\ args[1][1][1] # args[2][1][1]
    /\ result = False

\* the square of the distance between the centers of two entities
CenterDistSq(a, b) == RAdd(Sq(RSub(a.cx, b.cx)), Sq(RSub(a.cy, b.cy)))
RadiusSum(a, b) == RAdd(a.COLLISION_RADIUS, b.COLLISION_RADIUS)

IsEntityCollision ==
    op = "collision" /\ args[1].type = "Entity" /\ args[2].type = "Entity"

\* C5: collision of two entities is true exactly when the distance of their
\* centers is strictly less than the sum of their radii, and it is symmetric.
EntityCollisionIffCloser ==
    (IsEntityCollision /\ pc # "call")
    => /\ pc = "return"
       /\ result = Bool(RLt(CenterDistSq(args[1], args[2]),
                            Sq(RadiusSum(args[1], args[2]))))
       /\ result = Bool(collision_entities(args[2], args[1]))

EntitiesTouchingDoNotCollide ==
    /\ IsEntityCollision /\ pc = "return"
    /\ RGt(RadiusSum(args[1], args[2]), Num(0))
    /\ CenterDistSq(args[1], args[2]) = Sq(RadiusSum(args[1], args[2]))
    /\ result = Bool(FALSE)

IsTie == op \in {"max", "min"} /\ pc = "return" /\ REq(args[1], args[2])

\* C6 as stated: on a tie max and min return the first argument.
TieReturnsFirst == IsTie => result = args[1]

\* C6 as amended: on a tie max and min return the second argument, so
\* max(a, a) and min(a, a) are a.
TieReturnsSecond == IsTie => result = args[2]

TieOfTwoTypes == IsTie /\ args[1] # args[2] /\ result = args[2]

\* C7: no call raises: every call ends with a returned value.
NoCallRaises == pc # "raise"

\* C8: distance is symmetric over tuples and entities in all four
\* combinations, and the distance of a point to itself is 0.
DistanceSymmetric ==
    Ended("distance")
    => /\ pc = "return"
       /\ result.type = "float"
       /\ result = distance(args[2], args[1])
       /\ (args[1].type = "tuple" /\ args[1] = args[2]) => result = sqrt(Num(0))

EntityPointDistance ==
    /\ Returned("distance")
    /\ args[1].type = "Entity" /\ args[2].type = "tuple"
    /\ args[1].x # args[2].at[1] /\ args[1].y # args[2].at[2]
    /\ result = distance(args[2], args[1])
    /\ result # sqrt(Num(0))

\* C9: slope returns math.inf for two points of one x, coincident points
\* included, and rise over run, never math.inf, otherwise.
SlopeInfIffSameX ==
    Ended("slope")
    => /\ pc = "return"
       /\ args[1][1] = args[2][1] => result = inf
       /\ args[1][1] # args[2][1]
          => /\ ~ isinf(result)
             /\ RMul(result, Dx(args)) = Dy(args)

SlopeOfCoincidentPoints ==
    Returned("slope") /\ args[1] = args[2] /\ result = inf

\* the value v held into lo..hi
Clamp(v, lo, hi) == IF RLt(v, lo) THEN lo ELSE IF RGt(v, hi) THEN hi ELSE v
Lower(a, b) == IF RLt(a, b) THEN a ELSE b
Upper(a, b) == IF RLt(a, b) THEN b ELSE a

\* the square of the distance from p to the closest point of a horizontal
\* or vertical side
SideDistSq(p, side) ==
    LET qx == Clamp(p[1], Lower(side[1][1], side[2][1]), Upper(side[1][1], side[2][1]))
        qy == Clamp(p[2], Lower(side[1][2], side[2][2]), Upper(side[1][2], side[2][2]))
    IN  RAdd(Sq(RSub(p[1], qx)), Sq(RSub(p[2], qy)))

Sides(w) == {<<w.vertices[i], w.vertices[(i % Len(w.vertices)) + 1]>> : i \in 1..Len(w.vertices)}

AxisAligned(w) == \A side \in Sides(w) : IsVertical(side) \/ IsHorizontal(side)

\* C10: for a wall of horizontal and vertical sides and an entity whose
\* center() is its position, collision is true exactly when the closest
\* point of the wall's boundary is strictly closer to the center than the
\* collision radius, in either order of the arguments.
WallCollisionIffBoundaryCloser ==
    (/\ IsWallCollision
     /\ pc \in {"return", "raise"}
     /\ IsCentred(TheEntity)
     /\ AxisAligned(TheWall))
    => /\ pc = "return"
       /\ result = Bool(\E side \in Sides(TheWall) :
                           RLt(SideDistSq(center(TheEntity), side),
                               Sq(TheEntity.COLLISION_RADIUS)))

ScenarioBottomSideCollides ==
    /\ IsWallCollision /\ pc = "return"
    /\ TheWall = Wall(ScenarioSquare)
    /\ center(TheEntity) = <<Num(5), Frac(-1, 2)>>
    /\ TheEntity.COLLISION_RADIUS = Num(1)
    /\ result = Bool(TRUE)

====
